---- MODULE Spec2Model ----
(***************************************************************************)
(* The option-strategy state engine of btc-options-quant                   *)
(* (src/src/strategy/optionStrategy.ts, class OptionStrategy, the          *)
(* flat-premium engine) as a state machine.  One step is one call of       *)
(* processPriceData: the settlement pass (checkExpirations) followed by    *)
(* the issuance pass (considerSellingPut).                                 *)
(*                                                                         *)
(* Representation.                                                         *)
(*  - A Decimal (decimal.js) and a JavaScript number are both modelled as  *)
(*    an exact rational <<n, d>> in lowest terms with d > 0.  decimal.js   *)
(*    rounds results to 20 significant digits and toNumber() to the        *)
(*    nearest double; both roundings are far below the resolution of the   *)
(*    values used here (prices and percentages with at most three          *)
(*    significant digits), so sums, differences and products are exact and *)
(*    only a quotient is rounded, in its 20th digit.  That rounding is not *)
(*    modelled.                                                            *)
(*  - An ISO timestamp is an integer number of days; parseISO is the       *)
(*    identity on it, isAfter is >, addDays is +.                          *)
(*  - OptionContract objects are mutable and shared by reference: they     *)
(*    live in the heap `contracts`, and activeOptions holds their indices. *)
(*                                                                         *)
(* The repository holds a second variant of the class with the same        *)
(* settlement pass and the same issuance guard, which prices the put by    *)
(* Black-Scholes in double precision from a retained price history and     *)
(* sells only once 31 points are retained.  Its history and its gate are   *)
(* modelled (SpecHistory); its pricing arithmetic (exp, log, the erf       *)
(* approximation) is not expressible over the integers, and the premium    *)
(* it yields is left open there.                                           *)
(*                                                                         *)
(* Besides the engine called directly (Spec, and SpecAnyConfig for         *)
(* configurations outside the documented domain) the module holds the      *)
(* backtest driver on a fresh engine (SpecBacktest) and the two functions  *)
(* of utils/volatility.ts, calculateHistoricalVolatility (SpecVolatility)  *)
(* and calculateImpliedVolatility (SpecSolver), whose doubles are modelled *)
(* by class: finite, +Infinity, -Infinity, NaN.                            *)
(***************************************************************************)
EXTENDS Integers, Sequences, FiniteSets, TLC

\* Bounds of the model.
MaxTime == 8
MaxTicks == 4

(***************************************************************************)
(* Decimal arithmetic (decimal.js), on rationals <<n, d>>.                 *)
(***************************************************************************)
RECURSIVE GCD(_, _)
GCD(a, b) == IF b = 0 THEN a ELSE GCD(b, a % b)

Abs(x) == IF x < 0 THEN -x ELSE x

Decimal(n, d) ==
  LET g == GCD(Abs(n), d) IN <<n \div g, d \div g>>

Zero == <<0, 1>>

One == <<1, 1>>

plus(x, y) == Decimal(x[1] * y[2] + y[1] * x[2], x[2] * y[2])

minus(x, y) == Decimal(x[1] * y[2] - y[1] * x[2], x[2] * y[2])

times(x, y) == Decimal(x[1] * y[1], x[2] * y[2])

\* x / y for y # 0 (decimal.js yields Infinity or NaN for y = 0; no strike of
\* the model is 0, see Prices and Configs).
div(x, y) ==
  IF y[1] > 0 THEN Decimal(x[1] * y[2], x[2] * y[1])
  ELSE Decimal(-(x[1] * y[2]), x[2] * (-y[1]))

lessThan(x, y) == x[1] * y[2] < y[1] * x[2]

greaterThan(x, y) == x[1] * y[2] > y[1] * x[2]

(***************************************************************************)
(* date-fns.                                                               *)
(***************************************************************************)
isAfter_ge(date, dateToCompare) == date >= dateToCompare

isAfter_late(date, dateToCompare) == date > dateToCompare + 1

isAfter(date, dateToCompare) == date > dateToCompare

addDays(date, amount) == date + amount

(***************************************************************************)
(* Inputs: the price points a caller may pass and the configurations an    *)
(* engine may be constructed with.                                         *)
(***************************************************************************)
Prices == {Decimal(90, 1), Decimal(100, 1)}

Times == 0 .. MaxTime

BTCPriceData == [t : Times, p : Prices]

\* StrategyConfig values: the spec's worked example, the configuration of
\* src/src/index.ts, a one-day variant, a small-cash variant, zero
\* percentages, and an engine without cash.
Configs ==
  { [initialBTC |-> Zero, initialUSD |-> Decimal(1000, 1),
     putOptionPremiumPercent |-> Decimal(2, 100),
     strikePercentage |-> Decimal(5, 100), daysToExpiration |-> 7],
    [initialBTC |-> One, initialUSD |-> Decimal(50000, 1),
     putOptionPremiumPercent |-> Decimal(2, 100),
     strikePercentage |-> Decimal(5, 100), daysToExpiration |-> 7],
    [initialBTC |-> Zero, initialUSD |-> Decimal(1000, 1),
     putOptionPremiumPercent |-> Decimal(2, 100),
     strikePercentage |-> Decimal(5, 100), daysToExpiration |-> 1],
    [initialBTC |-> Zero, initialUSD |-> One,
     putOptionPremiumPercent |-> Decimal(2, 100),
     strikePercentage |-> Decimal(5, 100), daysToExpiration |-> 1],
    [initialBTC |-> Zero, initialUSD |-> Decimal(1000, 1),
     putOptionPremiumPercent |-> Zero,
     strikePercentage |-> Zero, daysToExpiration |-> 1],
    [initialBTC |-> One, initialUSD |-> Zero,
     putOptionPremiumPercent |-> Decimal(2, 100),
     strikePercentage |-> Decimal(5, 100), daysToExpiration |-> 1] }

(***************************************************************************)
(* State of one OptionStrategy instance.                                   *)
(***************************************************************************)
VARIABLES
  config,                 \* this.config
  btcBalance,             \* this.btcBalance
  usdBalance,             \* this.usdBalance
  contracts,              \* every OptionContract object created so far
  activeOptions,          \* this.activeOptions: references into contracts
  trades,                 \* this.trades
  totalPremiumCollected,  \* this.totalPremiumCollected
  assignedPuts,           \* this.assignedPuts
  lastTick,               \* the argument of the latest processPriceData call
  nTicks,                 \* the number of processPriceData calls so far
  backtest,               \* the activation of backtestStrategy, if any
  histVol,                \* ... of calculateHistoricalVolatility, if any
  impliedVol,             \* ... of calculateImpliedVolatility, if any
  priceHistory            \* this.priceHistory of the Black-Scholes variant

\* The variables of the OptionStrategy instance.
engineVars ==
  <<config, btcBalance, usdBalance, contracts, activeOptions, trades,
    totalPremiumCollected, assignedPuts, lastTick, nTicks>>

vars == <<config, btcBalance, usdBalance, contracts, activeOptions, trades,
          totalPremiumCollected, assignedPuts, lastTick, nTicks, backtest,
          histVol, impliedVol, priceHistory>>

\* The engine's fields as one record, threaded through the two passes.
Engine ==
  [btcBalance |-> btcBalance, usdBalance |-> usdBalance,
   contracts |-> contracts, activeOptions |-> activeOptions,
   trades |-> trades, totalPremiumCollected |-> totalPremiumCollected,
   assignedPuts |-> assignedPuts]

NoTick == [t |-> -1, p |-> Zero]

\* backtestStrategy has not been called.
NotCalled ==
  [pc |-> "idle", priceData |-> <<>>, startDate |-> <<>>, endDate |-> <<>>,
   filteredData |-> <<>>, received |-> <<>>,
   startingBTC |-> Zero, startingUSD |-> Zero,
   results |-> <<>>, error |-> ""]

\* calculateHistoricalVolatility has not been called.
NoVolatilityCall == [pc |-> "idle", priceData |-> <<>>, result |-> <<>>]

\* calculateImpliedVolatility has not been called.
NoSolverCall ==
  [pc |-> "idle", volatility |-> "finite", iteration |-> 0,
   evaluations |-> 0, price |-> "finite", converged |-> FALSE, error |-> ""]

\* new OptionStrategy(cfg)
constructor(cfg) ==
  /\ config = cfg
  /\ btcBalance = config.initialBTC
  /\ usdBalance = config.initialUSD
  /\ contracts = <<>>
  /\ activeOptions = <<>>
  /\ trades = <<>>
  /\ totalPremiumCollected = Zero
  /\ assignedPuts = 0
  /\ lastTick = NoTick
  /\ nTicks = 0

\* An engine constructed with a configuration of the documented domain and
\* called directly.
Init ==
  /\ \E cfg \in Configs : constructor(cfg)
  /\ backtest = NotCalled
  /\ histVol = NoVolatilityCall
  /\ impliedVol = NoSolverCall
  /\ priceHistory = <<>>

(***************************************************************************)
(* checkExpirations.                                                       *)
(***************************************************************************)
\* this.trades.push(record)
tradesPush_unshift(ledger, record) == <<record>> \o ledger

tradesPush(ledger, record) == Append(ledger, record)

\* currentPrice.lessThan(strikePrice)
isAssigned_le(currentPrice, strikePrice) ==
  ~greaterThan(currentPrice, strikePrice)

isAssigned(currentPrice, strikePrice) == lessThan(currentPrice, strikePrice)

\* btcAmount = this.usdBalance.div(strikePrice)
btcBought_atSpot(usd, strikePrice, currentPrice) == div(usd, currentPrice)

btcBought_negated(usd, strikePrice, currentPrice) ==
  minus(Zero, div(usd, strikePrice))

btcBought(usd, strikePrice, currentPrice) == div(usd, strikePrice)

\* this.usdBalance = new Decimal(0)
usdAfterAssignment_kept(usd, strikePrice) == usd

usdAfterAssignment(usd, strikePrice) == Zero

\* The assignment branch for the contract at heap index id.
putAssigned_staleRecord(e, id, currentTime, currentPrice) ==
  LET strikePrice == e.contracts[id].strikePrice
      btcAmount == btcBought(e.usdBalance, strikePrice, currentPrice)
  IN [e EXCEPT
        !.contracts[id].wasAssigned = TRUE,
        !.assignedPuts = @ + 1,
        !.btcBalance = plus(e.btcBalance, btcAmount),
        !.usdBalance = usdAfterAssignment(e.usdBalance, strikePrice),
        !.trades = tradesPush(@, [timestamp |-> currentTime,
                                  action |-> "PUT_ASSIGNED",
                                  btcPrice |-> currentPrice,
                                  strikePrice |-> strikePrice,
                                  btcBalance |-> e.btcBalance,
                                  usdBalance |-> e.usdBalance])]

putAssigned(e, id, currentTime, currentPrice) ==
  LET strikePrice == e.contracts[id].strikePrice
      btcAmount == btcBought(e.usdBalance, strikePrice, currentPrice)
      btc == plus(e.btcBalance, btcAmount)
      usd == usdAfterAssignment(e.usdBalance, strikePrice)
  IN [e EXCEPT
        !.contracts[id].wasAssigned = TRUE,
        !.assignedPuts = @ + 1,
        !.btcBalance = btc,
        !.usdBalance = usd,
        !.trades = tradesPush(@, [timestamp |-> currentTime,
                                  action |-> "PUT_ASSIGNED",
                                  btcPrice |-> currentPrice,
                                  strikePrice |-> strikePrice,
                                  btcBalance |-> btc,
                                  usdBalance |-> usd])]

\* The expired-worthless branch.
putExpired_credit(e, id, currentTime, currentPrice) ==
  LET usd == plus(e.usdBalance, e.contracts[id].premium)
  IN [e EXCEPT
        !.usdBalance = usd,
        !.trades = tradesPush(@, [timestamp |-> currentTime,
                                  action |-> "PUT_EXPIRED",
                                  btcPrice |-> currentPrice,
                                  strikePrice |-> e.contracts[id].strikePrice,
                                  btcBalance |-> e.btcBalance,
                                  usdBalance |-> usd])]

putExpired_strikeAsPrice(e, id, currentTime, currentPrice) ==
  [e EXCEPT
     !.trades = tradesPush(@, [timestamp |-> currentTime,
                               action |-> "PUT_EXPIRED",
                               btcPrice |-> e.contracts[id].strikePrice,
                               strikePrice |-> e.contracts[id].strikePrice,
                               btcBalance |-> e.btcBalance,
                               usdBalance |-> e.usdBalance])]

putExpired(e, id, currentTime, currentPrice) ==
  [e EXCEPT
     !.trades = tradesPush(@, [timestamp |-> currentTime,
                               action |-> "PUT_EXPIRED",
                               btcPrice |-> currentPrice,
                               strikePrice |-> e.contracts[id].strikePrice,
                               btcBalance |-> e.btcBalance,
                               usdBalance |-> e.usdBalance])]

\* The body of the loop for an option found expired.
settle_silent(e, id, currentTime, currentPrice) ==
  [e EXCEPT !.contracts[id].isActive = FALSE]

settle_keepsActive(e, id, currentTime, currentPrice) ==
  IF isAssigned(currentPrice, e.contracts[id].strikePrice)
  THEN putAssigned(e, id, currentTime, currentPrice)
  ELSE putExpired(e, id, currentTime, currentPrice)

settle(e, id, currentTime, currentPrice) ==
  LET e1 == [e EXCEPT !.contracts[id].isActive = FALSE]
  IN IF isAssigned(currentPrice, e1.contracts[id].strikePrice)
     THEN putAssigned(e1, id, currentTime, currentPrice)
     ELSE putExpired(e1, id, currentTime, currentPrice)

\* for (const option of this.activeOptions), from position i on;
\* stillActiveOptions is the list built so far.
RECURSIVE expirationLoop(_, _, _, _, _)
expirationLoop(e, i, stillActiveOptions, currentTime, currentPrice) ==
  IF i > Len(e.activeOptions)
  THEN [e EXCEPT !.activeOptions = stillActiveOptions]
  ELSE LET id == e.activeOptions[i]
           option == e.contracts[id]
       IN IF ~option.isActive
          THEN expirationLoop(e, i + 1, stillActiveOptions,
                              currentTime, currentPrice)
          ELSE IF isAfter(currentTime, option.expiresAt)
          THEN expirationLoop(settle(e, id, currentTime, currentPrice),
                              i + 1, stillActiveOptions,
                              currentTime, currentPrice)
          ELSE expirationLoop(e, i + 1, Append(stillActiveOptions, id),
                              currentTime, currentPrice)

checkExpirations(e, currentTime, currentPrice) ==
  expirationLoop(e, 1, <<>>, currentTime, currentPrice)

(***************************************************************************)
(* considerSellingPut.                                                     *)
(***************************************************************************)
\* The guard of the issuance pass.
canSellPut_cashOnly(e) == greaterThan(e.usdBalance, Zero)

canSellPut(e) ==
  greaterThan(e.usdBalance, Zero) /\ Len(e.activeOptions) = 0

\* currentPrice * (1 - strikePercentage)
strikeFor_above(currentPrice, cfg) ==
  times(currentPrice, plus(One, cfg.strikePercentage))

strikeFor(currentPrice, cfg) ==
  times(currentPrice, minus(One, cfg.strikePercentage))

\* strikePrice * putOptionPremiumPercent
premiumFor_strikePercent(strikePrice, cfg) ==
  times(strikePrice, cfg.strikePercentage)

premiumFor(strikePrice, cfg) ==
  times(strikePrice, cfg.putOptionPremiumPercent)

\* this.usdBalance = this.usdBalance.plus(premium)
creditPremium_minus(usd, premium) == minus(usd, premium)

creditPremium(usd, premium) == plus(usd, premium)

\* this.totalPremiumCollected = this.totalPremiumCollected.plus(premium)
accumulatePremium_overwrite(total, premium) == premium

accumulatePremium(total, premium) == plus(total, premium)

\* The body of the if: create the contract, credit the premium, record it.
sellPut(e, priceData, cfg) ==
  LET currentPrice == priceData.p
      strikePrice == strikeFor(currentPrice, cfg)
      premium == premiumFor(strikePrice, cfg)
      expiresAt == addDays(priceData.t, cfg.daysToExpiration)
      newOption == [type |-> "PUT", strikePrice |-> strikePrice,
                    premium |-> premium, createdAt |-> priceData.t,
                    expiresAt |-> expiresAt, isActive |-> TRUE,
                    wasAssigned |-> FALSE]
      usd == creditPremium(e.usdBalance, premium)
  IN [e EXCEPT
        !.contracts = Append(@, newOption),
        !.activeOptions = Append(@, Len(e.contracts) + 1),
        !.usdBalance = usd,
        !.totalPremiumCollected = accumulatePremium(@, premium),
        !.trades = tradesPush(@, [timestamp |-> priceData.t,
                                  action |-> "SELL_PUT",
                                  btcPrice |-> currentPrice,
                                  strikePrice |-> strikePrice,
                                  premium |-> premium,
                                  btcBalance |-> e.btcBalance,
                                  usdBalance |-> usd])]

considerSellingPut(e, priceData, cfg) ==
  IF canSellPut(e) THEN sellPut(e, priceData, cfg) ELSE e

(***************************************************************************)
(* processPriceData: one call, both passes.                                *)
(***************************************************************************)
processPriceData_issuanceFirst(priceData) ==
  LET e1 == considerSellingPut(Engine, priceData, config)
      e2 == checkExpirations(e1, priceData.t, priceData.p)
  IN /\ nTicks < MaxTicks
     /\ btcBalance' = e2.btcBalance
     /\ usdBalance' = e2.usdBalance
     /\ contracts' = e2.contracts
     /\ activeOptions' = e2.activeOptions
     /\ trades' = e2.trades
     /\ totalPremiumCollected' = e2.totalPremiumCollected
     /\ assignedPuts' = e2.assignedPuts
     /\ lastTick' = priceData
     /\ nTicks' = nTicks + 1
     /\ UNCHANGED config

processPriceData(priceData) ==
  LET e1 == checkExpirations(Engine, priceData.t, priceData.p)
      e2 == considerSellingPut(e1, priceData, config)
  IN /\ nTicks < MaxTicks
     /\ btcBalance' = e2.btcBalance
     /\ usdBalance' = e2.usdBalance
     /\ contracts' = e2.contracts
     /\ activeOptions' = e2.activeOptions
     /\ trades' = e2.trades
     /\ totalPremiumCollected' = e2.totalPremiumCollected
     /\ assignedPuts' = e2.assignedPuts
     /\ lastTick' = priceData
     /\ nTicks' = nTicks + 1
     /\ UNCHANGED config

Next ==
  /\ \E priceData \in BTCPriceData : processPriceData(priceData)
  /\ UNCHANGED <<backtest, histVol, impliedVol, priceHistory>>

Spec == Init /\ [][Next]_vars

(***************************************************************************)
(* The constructor with any StrategyConfig.  It stores the configuration   *)
(* and the two balances and checks nothing, so an engine can be built with *)
(* a configuration outside the documented domain and then be called.       *)
(***************************************************************************)
\* Configurations outside the documented domain: a premium percentage above
\* 1, a negative strike percentage, a strike percentage of 1, no days and
\* negative days to expiration.
ConfigsOutOfDomain ==
  { [initialBTC |-> Zero, initialUSD |-> Decimal(1000, 1),
     putOptionPremiumPercent |-> Decimal(3, 2),
     strikePercentage |-> Decimal(5, 100), daysToExpiration |-> 1],
    [initialBTC |-> Zero, initialUSD |-> Decimal(1000, 1),
     putOptionPremiumPercent |-> Decimal(2, 100),
     strikePercentage |-> Decimal(-1, 2), daysToExpiration |-> 1],
    [initialBTC |-> Zero, initialUSD |-> Decimal(1000, 1),
     putOptionPremiumPercent |-> Decimal(2, 100),
     strikePercentage |-> One, daysToExpiration |-> 1],
    [initialBTC |-> Zero, initialUSD |-> Decimal(1000, 1),
     putOptionPremiumPercent |-> Decimal(2, 100),
     strikePercentage |-> Decimal(5, 100), daysToExpiration |-> 0],
    [initialBTC |-> Zero, initialUSD |-> Decimal(1000, 1),
     putOptionPremiumPercent |-> Decimal(2, 100),
     strikePercentage |-> Decimal(5, 100), daysToExpiration |-> -1] }

\* An engine constructed with any configuration and called directly.
InitAnyConfig ==
  /\ \E cfg \in Configs \cup ConfigsOutOfDomain : constructor(cfg)
  /\ backtest = NotCalled
  /\ histVol = NoVolatilityCall
  /\ impliedVol = NoSolverCall
  /\ priceHistory = <<>>

SpecAnyConfig == InitAnyConfig /\ [][Next]_vars

(***************************************************************************)
(* backtestStrategy (utils/backtest.ts, the variant with an optional date  *)
(* range).  The call is split at the points where it calls the engine:     *)
(* backtestStart is everything up to the loop, backtestStep is one         *)
(* iteration of the loop, backtestReturn is everything after the loop.     *)
(* The elements of the input array are objects; the sorted and filtered    *)
(* arrays hold references to them, modelled as positions of the input.     *)
(* An optional argument is a sequence of length at most one.               *)
(***************************************************************************)
MaxPoints == 3

MaxBacktestTime == 2

BacktestTimes == 0 .. MaxBacktestTime

\* The points an input array is made of: the price stays at 100 and, on the
\* last day, may also be 90.
BacktestPoints ==
  {[t |-> t, p |-> Decimal(100, 1)] : t \in BacktestTimes}
    \cup {[t |-> MaxBacktestTime, p |-> Decimal(90, 1)]}

BacktestInputs ==
  UNION {[1 .. n -> BacktestPoints] : n \in 0 .. MaxPoints}

OptionalDates == {<<>>} \cup {<<d>> : d \in BacktestTimes}

\* The configurations the driver is run with: one-day options, cash to sell.
BacktestConfigs ==
  {cfg \in Configs : /\ cfg.daysToExpiration = 1
                     /\ cfg.initialUSD = Decimal(1000, 1)
                     /\ greaterThan(cfg.strikePercentage, Zero)}

isBefore_le(date, dateToCompare) == date <= dateToCompare

isBefore(date, dateToCompare) == date < dateToCompare

\* Decimal.toNumber(): the nearest double, which for the values used here
\* stands for the same rational.
toNumber(x) == x

\* (a, b) => new Date(a.t).getTime() - new Date(b.t).getTime()
compare_descending(priceData, a, b) == priceData[b].t - priceData[a].t

compare(priceData, a, b) == priceData[a].t - priceData[b].t

\* Array.prototype.sort is stable: an element goes behind every element
\* already placed that does not compare greater than it.
sortInsert(priceData, sorted, a) ==
  LET k == Cardinality({j \in 1 .. Len(sorted) :
                          compare(priceData, sorted[j], a) <= 0})
  IN SubSeq(sorted, 1, k) \o <<a>> \o SubSeq(sorted, k + 1, Len(sorted))

RECURSIVE sortFrom(_, _, _)
sortFrom(priceData, sorted, a) ==
  IF a > Len(priceData)
  THEN sorted
  ELSE sortFrom(priceData, sortInsert(priceData, sorted, a), a + 1)

\* [...priceData].sort(...), as positions of priceData
sortedData(priceData) == sortFrom(priceData, <<>>, 1)

\* The predicate of the filter.
inRange(t, startDate, endDate) ==
  /\ ~(startDate # <<>> /\ isBefore(t, startDate[1]))
  /\ ~(endDate # <<>> /\ isAfter(t, endDate[1]))

filteredData(priceData, startDate, endDate) ==
  LET keep(a) == inRange(priceData[a].t, startDate, endDate)
  IN SelectSeq(sortedData(priceData), keep)

\* if (priceData.length === 0)
isEmptyInput_never(priceData) == FALSE

isEmptyInput(priceData) == Len(priceData) = 0

\* The call up to the loop.
backtestStart(priceData, startDate, endDate) ==
  LET filtered == filteredData(priceData, startDate, endDate)
      called == [backtest EXCEPT !.priceData = priceData,
                                 !.startDate = startDate,
                                 !.endDate = endDate]
  IN /\ backtest.pc = "idle"
     /\ backtest' =
          IF isEmptyInput(priceData)
          THEN [called EXCEPT !.pc = "threw",
                              !.error = "Price data cannot be empty"]
          ELSE IF Len(filtered) = 0
          THEN [called EXCEPT
                  !.pc = "threw",
                  !.error = "No data points found in the specified date range"]
          ELSE [called EXCEPT !.pc = "running",
                              !.filteredData = filtered,
                              !.startingBTC = toNumber(btcBalance),
                              !.startingUSD = toNumber(usdBalance)]
     /\ UNCHANGED <<engineVars, histVol, impliedVol, priceHistory>>

\* for (const dataPoint of filteredData) strategy.processPriceData(dataPoint)
backtestStep ==
  LET i == Len(backtest.received) + 1
  IN /\ backtest.pc = "running"
     /\ i <= Len(backtest.filteredData)
     /\ processPriceData(backtest.priceData[backtest.filteredData[i]])
     /\ backtest' = [backtest EXCEPT
                       !.received = Append(@, backtest.filteredData[i])]
     /\ UNCHANGED <<histVol, impliedVol, priceHistory>>

\* The BacktestResults object.
backtestResults_countPoints(bt) ==
  [startingBTC |-> bt.startingBTC,
   finalBTC |-> toNumber(btcBalance),
   startingUSD |-> bt.startingUSD,
   finalUSD |-> toNumber(usdBalance),
   totalTrades |-> Len(bt.filteredData),
   assignedPuts |-> assignedPuts,
   totalPremiumCollected |-> toNumber(totalPremiumCollected),
   trades |-> trades,
   startDate |-> bt.priceData[bt.filteredData[1]].t,
   endDate |-> bt.priceData[bt.filteredData[Len(bt.filteredData)]].t]

backtestResults(bt) ==
  [startingBTC |-> bt.startingBTC,
   finalBTC |-> toNumber(btcBalance),
   startingUSD |-> bt.startingUSD,
   finalUSD |-> toNumber(usdBalance),
   totalTrades |-> Len(trades),
   assignedPuts |-> assignedPuts,
   totalPremiumCollected |-> toNumber(totalPremiumCollected),
   trades |-> trades,
   startDate |-> bt.priceData[bt.filteredData[1]].t,
   endDate |-> bt.priceData[bt.filteredData[Len(bt.filteredData)]].t]

\* The call after the loop.
backtestReturn ==
  /\ backtest.pc = "running"
  /\ Len(backtest.received) = Len(backtest.filteredData)
  /\ backtest' = [backtest EXCEPT !.pc = "returned",
                                  !.results = <<backtestResults(backtest)>>]
  /\ UNCHANGED <<engineVars, histVol, impliedVol, priceHistory>>

\* A fresh engine handed to one call of backtestStrategy.
InitBacktest ==
  /\ \E cfg \in BacktestConfigs : constructor(cfg)
  /\ backtest = NotCalled
  /\ histVol = NoVolatilityCall
  /\ impliedVol = NoSolverCall
  /\ priceHistory = <<>>

NextBacktest ==
  \/ /\ backtest.pc = "idle"
     /\ \E priceData \in BacktestInputs :
          \E startDate \in OptionalDates, endDate \in OptionalDates :
            backtestStart(priceData, startDate, endDate)
  \/ backtestStep
  \/ backtestReturn

SpecBacktest == InitBacktest /\ [][NextBacktest]_vars

(***************************************************************************)
(* calculateHistoricalVolatility (utils/volatility.ts).  Its arithmetic is *)
(* in double precision over logarithms, so a double is modelled by its     *)
(* class, "finite", "+Infinity", "-Infinity" or "NaN", and the operations  *)
(* by what IEEE-754 and decimal.js do to the classes.  A price is          *)
(* modelled by what decides the class of its logarithm: "positive",        *)
(* "zero", "negative", or "undefined", a p that is not a number, on which  *)
(* new Decimal throws.  The value returned is an interval [lo, hi] of      *)
(* rationals, or NaN.                                                      *)
(***************************************************************************)
MaxHistory == 32

DefaultWindowSize == 30

PriceClasses == {"positive", "zero", "negative", "undefined"}

\* The histories a caller may pass: positive prices, at most one of them
\* replaced by a price of another class.
Histories ==
  UNION {{[k \in 1 .. n |-> "positive"]}
           \cup {[k \in 1 .. n |-> IF k = bad THEN class ELSE "positive"] :
                   bad \in 1 .. n, class \in PriceClasses \ {"positive"}} :
         n \in 0 .. MaxHistory}

\* The priceData argument: missing, or an array.
HistoryArguments == {<<>>} \cup {<<h>> : h \in Histories}

\* Decimal.ln()
ln(price) ==
  CASE price = "positive" -> "finite"
    [] price = "zero" -> "-Infinity"
    [] price = "negative" -> "NaN"

\* a - b
floatMinus(a, b) ==
  IF a = "NaN" \/ b = "NaN" THEN "NaN"
  ELSE IF a = "finite"
  THEN (IF b = "finite" THEN "finite"
        ELSE IF b = "+Infinity" THEN "-Infinity" ELSE "+Infinity")
  ELSE IF a = b THEN "NaN" ELSE a

\* a + b
floatPlus(a, b) ==
  IF a = "NaN" \/ b = "NaN" THEN "NaN"
  ELSE IF a = "finite" THEN b
  ELSE IF b = "finite" \/ a = b THEN a ELSE "NaN"

\* a / n for a count n; a finite sum divided by 0 is the sum 0 of no terms.
floatDivide(a, n) ==
  IF n > 0 THEN a
  ELSE IF n = 0 THEN (IF a = "finite" THEN "NaN" ELSE a)
  ELSE IF a = "+Infinity" THEN "-Infinity"
  ELSE IF a = "-Infinity" THEN "+Infinity" ELSE a

\* Math.pow(a, 2)
mathPow2(a) == IF a \in {"finite", "NaN"} THEN a ELSE "+Infinity"

\* Math.sqrt(a), a not negative when finite
mathSqrt(a) == IF a = "-Infinity" THEN "NaN" ELSE a

\* a * Math.sqrt(365)
annualize(a) == a

\* Math.max(a, 0.1)
mathMax(a) == IF a = "-Infinity" THEN "finite" ELSE a

\* Math.min(a, 2.0)
mathMin(a) == IF a = "+Infinity" THEN "finite" ELSE a

\* list.reduce((sum, x) => sum + x, 0)
RECURSIVE sumFrom(_, _, _)
sumFrom(list, k, sum) ==
  IF k > Len(list) THEN sum ELSE sumFrom(list, k + 1, floatPlus(sum, list[k]))

\* The positions (counted from 1) the loop reads in iteration i, when both
\* exist.
windowPair(priceData, i) ==
  LET current == Len(priceData) - i + 1
      previous == Len(priceData) - i
  IN IF current >= 1 /\ previous >= 1 THEN <<current, previous>> ELSE <<>>

\* for (let i = 1; i <= windowSize; i++): the log returns pushed.
RECURSIVE logReturnsFrom(_, _, _, _)
logReturnsFrom(priceData, windowSize, i, logReturns) ==
  IF i > windowSize THEN logReturns
  ELSE LET pair == windowPair(priceData, i)
       IN IF pair = <<>>
          THEN logReturnsFrom(priceData, windowSize, i + 1, logReturns)
          ELSE logReturnsFrom(
                 priceData, windowSize, i + 1,
                 Append(logReturns,
                        floatMinus(ln(priceData[pair[1]]),
                                   ln(priceData[pair[2]]))))

\* new Decimal(p) throws in some iteration of the loop.
decimalThrows(priceData, windowSize) ==
  \E i \in 1 .. windowSize :
    LET pair == windowPair(priceData, i)
    IN /\ pair # <<>>
       /\ \/ priceData[pair[1]] = "undefined"
          \/ priceData[pair[2]] = "undefined"

DefaultVolatility ==
  [kind |-> "finite", lo |-> Decimal(1, 2), hi |-> Decimal(1, 2)]

\* A result of Math.min(Math.max(x, 0.1), 2.0) that is a number.
ClampedVolatility ==
  [kind |-> "finite", lo |-> Decimal(1, 10), hi |-> Decimal(2, 1)]

NaNVolatility == [kind |-> "NaN", lo |-> Zero, hi |-> Zero]

\* The body of the try block, when nothing throws.
annualizedVolatility(priceData, windowSize) ==
  LET logReturns == logReturnsFrom(priceData, windowSize, 1, <<>>)
      mean == floatDivide(sumFrom(logReturns, 1, "finite"), Len(logReturns))
      squaredDiffs == [k \in 1 .. Len(logReturns) |->
                         mathPow2(floatMinus(logReturns[k], mean))]
      variance == floatDivide(sumFrom(squaredDiffs, 1, "finite"),
                              Len(logReturns) - 1)
      stdDev == mathSqrt(variance)
  IN annualize(stdDev)

\* if (!priceData || priceData.length < windowSize + 1)
notEnoughData_offByOne(argument, windowSize) ==
  argument = <<>> \/ Len(argument[1]) < windowSize

notEnoughData(argument, windowSize) ==
  argument = <<>> \/ Len(argument[1]) < windowSize + 1

calculateHistoricalVolatility(argument, windowSize) ==
  IF notEnoughData(argument, windowSize)
  THEN [value |-> DefaultVolatility, from |-> "guard"]
  ELSE IF decimalThrows(argument[1], windowSize)
  THEN [value |-> DefaultVolatility, from |-> "catch"]
  ELSE LET clamped ==
             mathMin(mathMax(annualizedVolatility(argument[1], windowSize)))
       IN [value |-> IF clamped = "NaN" THEN NaNVolatility
                     ELSE ClampedVolatility,
           from |-> "try"]

\* A call with the default window size.
historicalVolatilityCall(argument) ==
  /\ histVol.pc = "idle"
  /\ histVol' =
       [pc |-> "returned", priceData |-> argument,
        result |-> <<calculateHistoricalVolatility(argument,
                                                   DefaultWindowSize)>>]
  /\ UNCHANGED <<engineVars, backtest, impliedVol, priceHistory>>

InitVolatility ==
  /\ \E cfg \in BacktestConfigs : constructor(cfg)
  /\ backtest = NotCalled
  /\ histVol = NoVolatilityCall
  /\ impliedVol = NoSolverCall
  /\ priceHistory = <<>>

NextVolatility ==
  /\ histVol.pc = "idle"
  /\ \E argument \in HistoryArguments : historicalVolatilityCall(argument)

SpecVolatility == InitVolatility /\ [][NextVolatility]_vars

(***************************************************************************)
(* calculateImpliedVolatility (utils/volatility.ts).  The arguments are    *)
(* arbitrary numbers, so a double is again modelled by its class and each  *)
(* arithmetic step by the set of classes it can produce; which of them it  *)
(* produces is the caller's choice of arguments.  One step of the model is *)
(* one iteration of the while loop.                                        *)
(***************************************************************************)
maxIterations == 100

\* blackScholes(...) at a volatility of the given class: d1 is NaN when the
\* volatility is not finite, and then so is the price.
blackScholes(volatility) ==
  IF volatility = "finite" THEN {"finite", "NaN"} ELSE {"NaN"}

\* Math.abs(diff) < tolerance can be true only of a number.
withinTolerance(price) == IF price = "finite" THEN BOOLEAN ELSE {FALSE}

\* calculateVega(...): a number other than 0, 0 (normalPDF underflows, or
\* timeToExpiry is 0), or NaN.
calculateVega(volatility) ==
  IF volatility = "finite" THEN {"finite", "zero", "NaN"} ELSE {"NaN"}

\* diff / vega, for a diff that is not within the tolerance.
quotient(price, vega) ==
  IF price = "NaN" \/ vega = "NaN" THEN {"NaN"}
  ELSE IF vega = "zero" THEN {"+Infinity", "-Infinity"}
  ELSE {"finite", "+Infinity", "-Infinity"}

\* volatility - diff / vega
newtonRaphson(volatility, price, vega) ==
  {floatMinus(volatility, q) : q \in quotient(price, vega)}

\* while (iteration < maxIterations)
loopCondition_le(iteration) == iteration <= maxIterations

loopCondition(iteration) == iteration < maxIterations

\* The call up to the loop.
impliedVolatilityStart ==
  /\ impliedVol.pc = "idle"
  /\ impliedVol' = [impliedVol EXCEPT !.pc = "loop",
                                      !.volatility = "finite",
                                      !.iteration = 0]
  /\ UNCHANGED <<engineVars, backtest, histVol, priceHistory>>

\* One iteration of the loop.
impliedVolatilityIterate ==
  /\ impliedVol.pc = "loop"
  /\ loopCondition(impliedVol.iteration)
  /\ \E price \in blackScholes(impliedVol.volatility) :
       \E small \in withinTolerance(price) :
         LET evaluated == [impliedVol EXCEPT !.evaluations = @ + 1,
                                             !.price = price,
                                             !.converged = small]
         IN IF small
            THEN impliedVol' = [evaluated EXCEPT !.pc = "returned"]
            ELSE \E vega \in calculateVega(impliedVol.volatility) :
                   \E volatility \in
                        newtonRaphson(impliedVol.volatility, price, vega) :
                     impliedVol' = [evaluated EXCEPT
                                      !.volatility = volatility,
                                      !.iteration = @ + 1]
  /\ UNCHANGED <<engineVars, backtest, histVol, priceHistory>>

\* throw new Error('Implied volatility calculation did not converge')
impliedVolatilityThrow ==
  /\ impliedVol.pc = "loop"
  /\ ~loopCondition(impliedVol.iteration)
  /\ impliedVol' =
       [impliedVol EXCEPT
          !.pc = "threw",
          !.error = "Implied volatility calculation did not converge"]
  /\ UNCHANGED <<engineVars, backtest, histVol, priceHistory>>

InitSolver ==
  /\ \E cfg \in BacktestConfigs : constructor(cfg)
  /\ backtest = NotCalled
  /\ histVol = NoVolatilityCall
  /\ impliedVol = NoSolverCall
  /\ priceHistory = <<>>

NextSolver ==
  \/ impliedVolatilityStart
  \/ impliedVolatilityIterate
  \/ impliedVolatilityThrow

\* The function runs to completion once called: its steps are not
\* interleaved with anything and none of them waits.
SpecSolver == InitSolver /\ [][NextSolver]_vars /\ WF_vars(NextSolver)

(***************************************************************************)
(* The Black-Scholes variant of OptionStrategy (strategy/optionStrategy.ts *)
(* with priceHistory).  Its settlement pass is the one above, statement    *)
(* for statement.  Before it the call updates the retained price history,  *)
(* and the issuance pass runs only once enough points are retained.  The   *)
(* premium is a double computed with exp, log and an approximation of erf, *)
(* which exact rationals cannot express: the model lets it be any of       *)
(* PutPrices, whatever the arguments.  The caller moves one day forward, repeats the day of the    *)
(* last retained point, or goes one day back, at a price of 100.           *)
(***************************************************************************)
MaxHistoryTicks == 103

maxPriceHistory == 100

minPriceHistory == 31

\* Thirty-day puts five percent below the price.
HistoryConfigs ==
  { [initialBTC |-> Zero, initialUSD |-> Decimal(1000, 1),
     putOptionPremiumPercent |-> Decimal(2, 100),
     strikePercentage |-> Decimal(5, 100), daysToExpiration |-> 30] }

\* The values the put price may take: nothing, when both normalCDF values
\* saturate, or a positive amount.
PutPrices == {Zero, One}

\* callPrice + strikePrice * Math.exp(-riskFreeRate * timeToExpiry)
\*   - currentPrice
calculateOptionPremium(currentPrice, strikePrice, timeToExpiry, volatility) ==
  PutPrices

\* The points the caller may pass next.
NextPoints ==
  IF priceHistory = <<>>
  THEN {[t |-> 0, p |-> Decimal(100, 1)]}
  ELSE {[t |-> priceHistory[Len(priceHistory)].t + d, p |-> Decimal(100, 1)] :
          d \in {-1, 0, 1}}

\* The class of a price, as calculateHistoricalVolatility reads it.
priceClass(p) ==
  IF greaterThan(p, Zero) THEN "positive"
  ELSE IF lessThan(p, Zero) THEN "negative" ELSE "zero"

updatePriceHistory_noShift(history, priceData) ==
  LET shouldAdd ==
        \/ Len(history) = 0
        \/ /\ Len(history) > 0
           /\ isAfter(priceData.t, history[Len(history)].t)
  IN IF shouldAdd THEN Append(history, priceData) ELSE history

updatePriceHistory(history, priceData) ==
  LET shouldAdd ==
        \/ Len(history) = 0
        \/ /\ Len(history) > 0
           /\ isAfter(priceData.t, history[Len(history)].t)
      pushed == Append(history, priceData)
  IN IF shouldAdd
     THEN (IF Len(pushed) > maxPriceHistory THEN Tail(pushed) ELSE pushed)
     ELSE history

hasEnoughPriceHistory(history) == Len(history) >= minPriceHistory

getPastPriceHistory(history, currentDate) ==
  LET notAfter(data) == ~isAfter(data.t, currentDate)
  IN SelectSeq(history, notAfter)

\* calculateHistoricalVolatility(pastPriceHistory)
volatilityOf(pastPriceHistory) ==
  calculateHistoricalVolatility(
    <<[k \in 1 .. Len(pastPriceHistory) |->
         priceClass(pastPriceHistory[k].p)]>>,
    DefaultWindowSize)

\* The premiums the issuance pass may compute on the call.
premiumsFor(priceData, cfg, history) ==
  calculateOptionPremium(
    toNumber(priceData.p),
    toNumber(strikeFor(priceData.p, cfg)),
    Decimal(cfg.daysToExpiration, 365),
    volatilityOf(getPastPriceHistory(history, priceData.t)))

\* The body of the issuance pass of the variant, for one of them.
sellPutAt(e, priceData, cfg, premium) ==
  LET currentPrice == priceData.p
      strikePrice == strikeFor(currentPrice, cfg)
      expiresAt == addDays(priceData.t, cfg.daysToExpiration)
      newOption == [type |-> "PUT", strikePrice |-> strikePrice,
                    premium |-> premium, createdAt |-> priceData.t,
                    expiresAt |-> expiresAt, isActive |-> TRUE,
                    wasAssigned |-> FALSE]
      usd == creditPremium(e.usdBalance, premium)
  IN [e EXCEPT
        !.contracts = Append(@, newOption),
        !.activeOptions = Append(@, Len(e.contracts) + 1),
        !.usdBalance = usd,
        !.totalPremiumCollected = accumulatePremium(@, premium),
        !.trades = tradesPush(@, [timestamp |-> priceData.t,
                                  action |-> "SELL_PUT",
                                  btcPrice |-> currentPrice,
                                  strikePrice |-> strikePrice,
                                  premium |-> premium,
                                  btcBalance |-> e.btcBalance,
                                  usdBalance |-> usd])]

\* if (this.hasEnoughPriceHistory()) this.considerSellingPut(priceData)
sellsPut(e, history) == hasEnoughPriceHistory(history) /\ canSellPut(e)

\* processPriceData of the variant.
processPriceDataWithHistory(priceData) ==
  LET history == updatePriceHistory(priceHistory, priceData)
      e1 == checkExpirations(Engine, priceData.t, priceData.p)
  IN /\ nTicks < MaxHistoryTicks
     /\ priceHistory' = history
     /\ \E premium \in premiumsFor(priceData, config, history) :
          LET e2 == IF sellsPut(e1, history)
                    THEN sellPutAt(e1, priceData, config, premium)
                    ELSE e1
          IN /\ btcBalance' = e2.btcBalance
             /\ usdBalance' = e2.usdBalance
             /\ contracts' = e2.contracts
             /\ activeOptions' = e2.activeOptions
             /\ trades' = e2.trades
             /\ totalPremiumCollected' = e2.totalPremiumCollected
             /\ assignedPuts' = e2.assignedPuts
     /\ lastTick' = priceData
     /\ nTicks' = nTicks + 1
     /\ UNCHANGED <<config, backtest, histVol, impliedVol>>

InitHistory ==
  /\ \E cfg \in HistoryConfigs : constructor(cfg)
  /\ backtest = NotCalled
  /\ histVol = NoVolatilityCall
  /\ impliedVol = NoSolverCall
  /\ priceHistory = <<>>

NextHistory ==
  \E priceData \in NextPoints : processPriceDataWithHistory(priceData)

SpecHistory == InitHistory /\ [][NextHistory]_vars

(***************************************************************************)
(* Vocabulary of the properties.                                           *)
(***************************************************************************)
Settlements == {"PUT_EXPIRED", "PUT_ASSIGNED"}

\* The positions of the ledger that the step under consideration appends.
NewPositions == (Len(trades) + 1) .. Len(trades')

\* The contracts that are open when a call starts.
OpenContracts ==
  {activeOptions[i] : i \in 1 .. Len(activeOptions)}

ActiveContracts == {id \in 1 .. Len(contracts) : contracts[id].isActive}

Equal(x, y) == ~lessThan(x, y) /\ ~greaterThan(x, y)

ExampleConfig ==
  [initialBTC |-> Zero, initialUSD |-> Decimal(1000, 1),
   putOptionPremiumPercent |-> Decimal(2, 100),
   strikePercentage |-> Decimal(5, 100), daysToExpiration |-> 7]

(***************************************************************************)
(* C1.  Single-position invariant: the ledger never holds two SELL_PUT     *)
(* records without a PUT_EXPIRED or PUT_ASSIGNED record between them, and  *)
(* at no time is more than one contract active, whatever the cash balance. *)
(***************************************************************************)
C1_SinglePosition ==
  /\ \A i, j \in 1 .. Len(trades) :
       (i < j /\ trades[i].action = "SELL_PUT" /\ trades[j].action = "SELL_PUT")
         => \E k \in (i + 1) .. (j - 1) : trades[k].action \in Settlements
  /\ Cardinality(ActiveContracts) <= 1
  /\ Len(activeOptions) <= 1

\* A second put has been sold after a settlement, cash is available, and the
\* latest call, made while that put was active, appended nothing.
C1_Witness ==
  /\ Len(trades) = 3
  /\ trades[1].action = "SELL_PUT"
  /\ trades[3].action = "SELL_PUT"
  /\ Len(activeOptions) = 1
  /\ greaterThan(usdBalance, Zero)
  /\ lastTick.t # trades[3].timestamp

(***************************************************************************)
(* C2.  Assignment correctness: every record a call appends carries the    *)
(* price of that call; a PUT_ASSIGNED record has btcPrice < strikePrice    *)
(* and a PUT_EXPIRED record has btcPrice >= strikePrice.                   *)
(***************************************************************************)
C2_AssignmentCorrect ==
  [][\A i \in NewPositions :
       /\ Equal(trades'[i].btcPrice, lastTick'.p)
       /\ trades'[i].timestamp = lastTick'.t
       /\ trades'[i].action = "PUT_ASSIGNED"
            => lessThan(trades'[i].btcPrice, trades'[i].strikePrice)
       /\ trades'[i].action = "PUT_EXPIRED"
            => ~lessThan(trades'[i].btcPrice, trades'[i].strikePrice)]_vars

\* The ledger holds a put that expired with the price exactly at its strike
\* and a put that was assigned.
C2_Witness ==
  /\ \E i \in 1 .. Len(trades) :
       /\ trades[i].action = "PUT_EXPIRED"
       /\ Equal(trades[i].btcPrice, trades[i].strikePrice)
  /\ \E i \in 1 .. Len(trades) : trades[i].action = "PUT_ASSIGNED"

(***************************************************************************)
(* C3.  Boundary rule: a call whose timestamp is not strictly later than   *)
(* an open contract's expiresAt, and in particular one exactly equal to    *)
(* it, leaves that contract active and in activeOptions and appends no     *)
(* PUT_EXPIRED or PUT_ASSIGNED record.                                     *)
(***************************************************************************)
C3_Boundary ==
  [][\A id \in OpenContracts :
       (contracts[id].isActive /\ lastTick'.t <= contracts[id].expiresAt)
         => /\ contracts'[id].isActive
            /\ ~contracts'[id].wasAssigned
            /\ \E i \in 1 .. Len(activeOptions') : activeOptions'[i] = id
            /\ \A i \in NewPositions : trades'[i].action \notin Settlements]_vars

\* The latest call came exactly at the expiry instant of the open contract.
C3_Witness ==
  \E id \in OpenContracts :
    /\ contracts[id].isActive
    /\ contracts[id].expiresAt = lastTick.t
    /\ nTicks >= 2

(***************************************************************************)
(* C4.  Settlement pass: on every call, every open contract whose          *)
(* expiresAt is strictly earlier than the call's timestamp is deactivated, *)
(* leaves activeOptions and gets a PUT_EXPIRED or PUT_ASSIGNED record with *)
(* its strike and the call's timestamp.                                    *)
(***************************************************************************)
SettledInStep(id) ==
  /\ ~contracts'[id].isActive
  /\ \A i \in 1 .. Len(activeOptions') : activeOptions'[i] # id
  /\ \E i \in NewPositions :
       /\ trades'[i].action \in Settlements
       /\ trades'[i].timestamp = lastTick'.t
       /\ Equal(trades'[i].strikePrice, contracts[id].strikePrice)
       /\ (trades'[i].action = "PUT_ASSIGNED") = contracts'[id].wasAssigned

\* C4, amended: every open contract with expiresAt < t is settled by the call.
C4_SettlementPass ==
  [][\A id \in OpenContracts :
       (contracts[id].isActive /\ contracts[id].expiresAt < lastTick'.t)
         => SettledInStep(id)]_vars

\* C4 as written: every open contract with expiresAt <= t is settled by the
\* call.
C4_AsWritten ==
  [][\A id \in OpenContracts :
       (contracts[id].isActive /\ contracts[id].expiresAt <= lastTick'.t)
         => SettledInStep(id)]_vars

\* The latest call settled a contract that had expired one day before it.
C4_Witness ==
  /\ Len(trades) >= 2
  /\ \E id \in 1 .. Len(contracts) :
       /\ ~contracts[id].isActive
       /\ contracts[id].expiresAt + 1 = lastTick.t
       /\ \E i \in 1 .. Len(trades) :
            /\ trades[i].action \in Settlements
            /\ trades[i].timestamp = lastTick.t

(***************************************************************************)
(* C5.  Worked example (strike discount 5%, premium 2%, 7-day expiry,      *)
(* initialUSD 1000, initialBTC 0).  The first tick (t0, 100) sells a put   *)
(* with strike 95 and premium 1.9, leaving usdBalance = 1001.9.  A second  *)
(* tick (t0+7d, 90) does not settle it: the contract stays active and the  *)
(* balances stay 0 BTC and 1001.9 USD.  A second tick at price 90 that is  *)
(* strictly later than t0+7d assigns it, leaving                           *)
(* btcBalance = 1001.9/95 and usdBalance = 0.                              *)
(***************************************************************************)
\* Two calls have been made, the first one (t0, 100).
ExampleRun ==
  /\ config = ExampleConfig
  /\ nTicks = 2
  /\ Len(trades) >= 1
  /\ trades[1].action = "SELL_PUT"
  /\ trades[1].btcPrice = Decimal(100, 1)
  /\ lastTick.p = Decimal(90, 1)

ExampleSale ==
  /\ trades[1].strikePrice = Decimal(95, 1)
  /\ trades[1].premium = Decimal(19, 10)
  /\ trades[1].usdBalance = Decimal(10019, 10)
  /\ trades[1].btcBalance = Zero
  /\ contracts[1].expiresAt = trades[1].timestamp + 7

ExampleAssigned ==
  /\ Len(trades) = 2
  /\ trades[2].action = "PUT_ASSIGNED"
  /\ btcBalance = Decimal(10019, 950)
  /\ usdBalance = Zero
  /\ assignedPuts = 1

ExampleStillOpen ==
  /\ Len(trades) = 1
  /\ activeOptions = <<1>>
  /\ contracts[1].isActive
  /\ btcBalance = Zero
  /\ usdBalance = Decimal(10019, 10)
  /\ assignedPuts = 0

\* C5, amended: the outcome of the worked example, at and after the expiry
\* instant.
C5_Example ==
  /\ (ExampleRun /\ lastTick.t = trades[1].timestamp + 7)
       => (ExampleSale /\ ExampleStillOpen)
  /\ (ExampleRun /\ lastTick.t > trades[1].timestamp + 7)
       => (ExampleSale /\ ExampleAssigned)

\* C5 as written: the tick at t0+7d assigns the put.
C5_AsWritten ==
  (ExampleRun /\ lastTick.t = trades[1].timestamp + 7)
    => (ExampleSale /\ ExampleAssigned)

\* The example's second tick was (t0+8d, 90) and the put was assigned.
C5_Witness ==
  /\ ExampleRun
  /\ lastTick.t = trades[1].timestamp + 8
  /\ ExampleAssigned

\* The example's second tick was (t0+7d, 90).
C5_WitnessBoundary ==
  /\ ExampleRun
  /\ lastTick.t = trades[1].timestamp + 7

(***************************************************************************)
(* C6.  Balance non-negativity: with initialBTC >= 0, initialUSD >= 0 and  *)
(* both percentages in [0,1), and positive prices, btcBalance >= 0 and     *)
(* usdBalance >= 0 hold after every processPriceData call.                 *)
(***************************************************************************)
InUnitInterval(x) == ~lessThan(x, Zero) /\ lessThan(x, One)

ValidConfig ==
  /\ ~lessThan(config.initialBTC, Zero)
  /\ ~lessThan(config.initialUSD, Zero)
  /\ InUnitInterval(config.putOptionPremiumPercent)
  /\ InUnitInterval(config.strikePercentage)

RECURSIVE SumOfPremiums(_)
SumOfPremiums(ledger) ==
  IF ledger = <<>> THEN Zero
  ELSE LET rest == SumOfPremiums(SubSeq(ledger, 1, Len(ledger) - 1))
           last == ledger[Len(ledger)]
       IN IF last.action = "SELL_PUT" THEN plus(rest, last.premium) ELSE rest

AssignedInStep(id) ==
  /\ contracts[id].isActive
  /\ \/ contracts'[id].wasAssigned
     \/ /\ isAfter(lastTick'.t, contracts[id].expiresAt)
        /\ lessThan(lastTick'.p, contracts[id].strikePrice)

\* C8: the effect of an assignment on balances, counter, contract and ledger.
C8_AssignmentAccounting ==
  /\ [](\A i \in 1 .. Len(trades) :
          trades[i].action = "PUT_ASSIGNED" => trades[i].usdBalance = Zero)
  /\ [][/\ \A id \in OpenContracts :
             AssignedInStep(id)
               => /\ btcBalance' = plus(btcBalance,
                                        div(usdBalance,
                                            contracts[id].strikePrice))
                  /\ usdBalance' = Zero
                  /\ assignedPuts' = assignedPuts + 1
                  /\ contracts'[id].wasAssigned
                  /\ ~contracts'[id].isActive
                  /\ Len(trades') = Len(trades) + 1
                  /\ trades'[Len(trades')].action = "PUT_ASSIGNED"
                  /\ trades'[Len(trades')].btcBalance = btcBalance'
        /\ (assignedPuts' # assignedPuts
              \/ \E i \in NewPositions : trades'[i].action = "PUT_ASSIGNED")
             => \E id \in OpenContracts : AssignedInStep(id)]_vars

\* A put sold below the first price was assigned for cash that includes its
\* premium.
C8_Witness ==
  /\ Len(trades) >= 2
  /\ trades[Len(trades)].action = "PUT_ASSIGNED"
  /\ assignedPuts = 1
  /\ usdBalance = Zero
  /\ greaterThan(totalPremiumCollected, Zero)
  /\ greaterThan(btcBalance, config.initialBTC)

(***************************************************************************)
(* C9.  Balance frame: a call changes btcBalance or usdBalance only if it  *)
(* appends a SELL_PUT or a PUT_ASSIGNED record.  A call that appends       *)
(* neither leaves both unchanged; a PUT_EXPIRED record carries the         *)
(* balances the call started with; a call that sells without assigning     *)
(* raises usdBalance by the premium sold and leaves btcBalance unchanged.  *)
(***************************************************************************)
NewActions == {trades'[i].action : i \in NewPositions}

\* C9: balances change only with a SELL_PUT or PUT_ASSIGNED record.
C9_BalanceFrame ==
  [][/\ (NewActions \cap {"SELL_PUT", "PUT_ASSIGNED"} = {})
          => (btcBalance' = btcBalance /\ usdBalance' = usdBalance)
     /\ \A i \in NewPositions :
          trades'[i].action = "PUT_EXPIRED"
            => /\ trades'[i].btcBalance = btcBalance
               /\ trades'[i].usdBalance = usdBalance
     /\ \A i \in NewPositions :
          (trades'[i].action = "SELL_PUT" /\ "PUT_ASSIGNED" \notin NewActions)
            => /\ btcBalance' = btcBalance
               /\ usdBalance' = plus(usdBalance, trades'[i].premium)]_vars

\* A put expired worthless (and the next one was sold in the same call),
\* and a later call appended nothing.
C9_Witness ==
  /\ Len(trades) = 3
  /\ trades[2].action = "PUT_EXPIRED"
  /\ greaterThan(trades[3].usdBalance, trades[2].usdBalance)
  /\ lastTick.t # trades[3].timestamp
  /\ usdBalance = trades[3].usdBalance

(***************************************************************************)
(* C10.  Append-only ledger: the ledger before a call is a prefix of the   *)
(* ledger after it.                                                        *)
(***************************************************************************)
IsPrefix(s, t) ==
  /\ Len(s) <= Len(t)
  /\ \A i \in 1 .. Len(s) : s[i] = t[i]

\* C10: every call extends the ledger at its end and changes nothing in it.
C10_AppendOnly == [][IsPrefix(trades, trades')]_vars

\* A call has appended two records to a ledger that already held three.
C10_Witness ==
  /\ Len(trades) = 5
  /\ trades[4].timestamp = lastTick.t
  /\ trades[5].timestamp = lastTick.t
  /\ trades[3].timestamp # lastTick.t

(***************************************************************************)
(* C11.  Contract lifecycle: a contract is created active and not          *)
(* assigned; isActive only ever goes from true to false, in the call that  *)
(* settles the contract, and never back; wasAssigned only ever becomes     *)
(* true, in that same call.                                                *)
(***************************************************************************)
\* The contracts the step under consideration creates.
NewContracts == (Len(contracts) + 1) .. Len(contracts')

\* C11: created active and unassigned; deactivated once, by its settlement;
\* wasAssigned set only in the settling call.
C11_Lifecycle ==
  [][/\ Len(contracts') >= Len(contracts)
     /\ \A id \in NewContracts :
          contracts'[id].isActive /\ ~contracts'[id].wasAssigned
     /\ \A id \in 1 .. Len(contracts) :
          /\ contracts'[id].isActive => contracts[id].isActive
          /\ (contracts[id].isActive /\ ~contracts'[id].isActive)
               => SettledInStep(id)
          /\ contracts[id].wasAssigned => contracts'[id].wasAssigned
          /\ (~contracts[id].wasAssigned /\ contracts'[id].wasAssigned)
               => (contracts[id].isActive /\ ~contracts'[id].isActive)]_vars

\* One contract expired worthless, a later one was assigned, and the engine
\* was called again after the assignment.
C11_Witness ==
  /\ \E id \in 1 .. Len(contracts) :
       ~contracts[id].isActive /\ ~contracts[id].wasAssigned
  /\ \E id \in 1 .. Len(contracts) :
       ~contracts[id].isActive /\ contracts[id].wasAssigned
  /\ \E i \in 1 .. Len(trades) :
       trades[i].action = "PUT_ASSIGNED" /\ trades[i].timestamp < lastTick.t

(***************************************************************************)
(* Vocabulary of the properties of backtestStrategy.                       *)
(***************************************************************************)
\* The engine is as its constructor left it.
EngineUntouched ==
  /\ nTicks = 0
  /\ lastTick = NoTick
  /\ btcBalance = config.initialBTC
  /\ usdBalance = config.initialUSD
  /\ contracts = <<>>
  /\ activeOptions = <<>>
  /\ trades = <<>>
  /\ totalPremiumCollected = Zero
  /\ assignedPuts = 0

\* The positions of the input whose timestamp lies in the closed date range;
\* a bound that was not supplied does not restrict.
InDateRange ==
  {a \in 1 .. Len(backtest.priceData) :
     /\ \A k \in 1 .. Len(backtest.startDate) :
          backtest.startDate[k] <= backtest.priceData[a].t
     /\ \A k \in 1 .. Len(backtest.endDate) :
          backtest.priceData[a].t <= backtest.endDate[k]}

\* The positions of the input handed to the engine so far.
Received == {backtest.received[j] : j \in 1 .. Len(backtest.received)}

TimeOf(a) == backtest.priceData[a].t

(***************************************************************************)
(* C13.  Empty input: backtestStrategy called with an empty array throws   *)
(* 'Price data cannot be empty' before any point is processed; it returns  *)
(* no result and leaves the engine untouched.                              *)
(***************************************************************************)
\* C13: an empty input ends in the empty-input error with the engine
\* untouched and no result.
C13_EmptyInput ==
  (backtest.pc # "idle" /\ Len(backtest.priceData) = 0)
    => /\ backtest.pc = "threw"
       /\ backtest.error = "Price data cannot be empty"
       /\ backtest.results = <<>>
       /\ backtest.received = <<>>
       /\ EngineUntouched

\* The call was made with an empty array and a date range, and threw.
C13_Witness ==
  /\ backtest.pc = "threw"
  /\ Len(backtest.priceData) = 0
  /\ backtest.startDate # <<>>
  /\ backtest.endDate # <<>>

(***************************************************************************)
(* C14.  Date range: the points processed are exactly those with           *)
(* start <= t <= end, both ends inclusive; when no point of a non-empty    *)
(* input is in the range the call throws 'No data points found in the      *)
(* specified date range' and the engine is untouched.                      *)
(***************************************************************************)
\* C14: only points of the closed range are processed, all of them by the
\* time the call returns; an empty selection throws without processing.
C14_DateRange ==
  /\ Received \subseteq InDateRange
  /\ backtest.pc = "returned" => Received = InDateRange
  /\ (backtest.pc # "idle" /\ Len(backtest.priceData) > 0
        /\ InDateRange = {})
       => /\ backtest.pc = "threw"
          /\ backtest.error =
               "No data points found in the specified date range"
          /\ backtest.results = <<>>
          /\ EngineUntouched
  /\ (backtest.pc = "threw" /\ Len(backtest.priceData) > 0)
       => InDateRange = {}

\* A returned call with both dates supplied that processed a point dated
\* exactly at the start, one dated exactly at the end, and left one out.
C14_Witness ==
  /\ backtest.pc = "returned"
  /\ backtest.startDate # <<>>
  /\ backtest.endDate # <<>>
  /\ \E a \in Received : TimeOf(a) = backtest.startDate[1]
  /\ \E a \in Received : TimeOf(a) = backtest.endDate[1]
  /\ \E a \in 1 .. Len(backtest.priceData) : a \notin Received

(***************************************************************************)
(* C15.  Ordering: the engine receives the selected points in ascending    *)
(* order of timestamp, points with equal timestamps in their input order,  *)
(* each point once, and never a point earlier than one it has received.    *)
(***************************************************************************)
\* C15: the sequence received is ascending by timestamp, ties in input
\* order, without repetition, and the engine's latest argument is its last
\* element.
C15_Ordering ==
  /\ nTicks = Len(backtest.received)
  /\ \A j, k \in 1 .. Len(backtest.received) :
       j < k =>
         \/ TimeOf(backtest.received[j]) < TimeOf(backtest.received[k])
         \/ /\ TimeOf(backtest.received[j]) = TimeOf(backtest.received[k])
            /\ backtest.received[j] < backtest.received[k]
  /\ Len(backtest.received) > 0 =>
       lastTick = backtest.priceData[backtest.received[Len(backtest.received)]]
  /\ backtest.pc = "returned" =>
       /\ Received = InDateRange
       /\ Len(backtest.received) = Cardinality(InDateRange)

\* A returned call whose input was out of order and held two points with
\* the same timestamp.
C15_Witness ==
  /\ backtest.pc = "returned"
  /\ \E j, k \in 1 .. Len(backtest.received) :
       j < k /\ backtest.received[j] > backtest.received[k]
  /\ \E j, k \in 1 .. Len(backtest.received) :
       /\ j < k
       /\ TimeOf(backtest.received[j]) = TimeOf(backtest.received[k])
       /\ backtest.priceData[backtest.received[j]]
            # backtest.priceData[backtest.received[k]]

(***************************************************************************)
(* C16.  Result: the returned object reports the ledger's length as        *)
(* totalTrades, the number of PUT_ASSIGNED records as assignedPuts, the    *)
(* engine's premium total and balances after the last point, and the       *)
(* timestamps of the first and last processed point as startDate and       *)
(* endDate.                                                                *)
(***************************************************************************)
\* C16: the fields of the result agree with the engine and with the points
\* processed.
C16_ResultConsistency ==
  backtest.pc = "returned" =>
    LET r == backtest.results[1]
    IN /\ Len(backtest.results) = 1
       /\ r.totalTrades = Len(trades)
       /\ r.trades = trades
       /\ r.assignedPuts =
            Cardinality({i \in 1 .. Len(trades) :
                           trades[i].action = "PUT_ASSIGNED"})
       /\ Equal(r.totalPremiumCollected, totalPremiumCollected)
       /\ Equal(r.totalPremiumCollected, SumOfPremiums(trades))
       /\ Equal(r.finalBTC, btcBalance)
       /\ Equal(r.finalUSD, usdBalance)
       /\ Equal(r.finalBTC, trades[Len(trades)].btcBalance)
       /\ Equal(r.finalUSD, trades[Len(trades)].usdBalance)
       /\ r.startDate = TimeOf(backtest.received[1])
       /\ r.endDate = TimeOf(backtest.received[Len(backtest.received)])
       /\ r.endDate = lastTick.t
       /\ \A j \in 1 .. Len(backtest.received) :
            /\ r.startDate <= TimeOf(backtest.received[j])
            /\ TimeOf(backtest.received[j]) <= r.endDate

\* A returned run over more than one day with a sale and an assignment.
C16_Witness ==
  /\ backtest.pc = "returned"
  /\ backtest.results[1].assignedPuts = 1
  /\ backtest.results[1].totalTrades = 2
  /\ backtest.results[1].startDate < backtest.results[1].endDate
  /\ greaterThan(backtest.results[1].finalBTC, Zero)

(***************************************************************************)
(* C17.  calculateHistoricalVolatility with the default window of 30       *)
(* returns exactly 0.5 when given fewer than 31 points, an empty array or  *)
(* no array.                                                               *)
(***************************************************************************)
\* The call was given no array or fewer than 31 points.
FewerThan31 ==
  histVol.priceData = <<>> \/ Len(histVol.priceData[1]) < 31

\* C17: fewer than 31 points, or none, give exactly 0.5.
C17_ShortHistory ==
  (histVol.pc = "returned" /\ FewerThan31)
    => /\ histVol.result[1].value.kind = "finite"
       /\ histVol.result[1].value.lo = Decimal(1, 2)
       /\ histVol.result[1].value.hi = Decimal(1, 2)

\* A call with exactly 30 points, one of them zero, returned.
C17_Witness ==
  /\ histVol.pc = "returned"
  /\ histVol.priceData # <<>>
  /\ Len(histVol.priceData[1]) = 30
  /\ \E k \in 1 .. 30 : histVol.priceData[1][k] = "zero"

(***************************************************************************)
(* C18.  With at least 31 points and a zero or negative price among the    *)
(* last 31, the failure is caught and 0.5 is returned; NaN is never        *)
(* returned.                                                               *)
(***************************************************************************)
\* The last 31 prices of a history of at least 31 points.
Window ==
  IF histVol.priceData = <<>> \/ Len(histVol.priceData[1]) < 31
  THEN {}
  ELSE {histVol.priceData[1][k] :
          k \in (Len(histVol.priceData[1]) - 30) .. Len(histVol.priceData[1])}

\* C18 as written: a zero or negative price in the window gives 0.5, and no
\* call returns NaN.
C18_AsWritten ==
  histVol.pc = "returned" =>
    /\ histVol.result[1].value.kind # "NaN"
    /\ (Window \cap {"zero", "negative"} # {})
         => histVol.result[1].value = DefaultVolatility

(***************************************************************************)
(* C19.  calculateImpliedVolatility terminates after at most 100           *)
(* Newton-Raphson iterations; it returns a volatility only when the model  *)
(* price at that volatility is within 1e-4 of the target; otherwise, also  *)
(* when vega is 0 and the iterate becomes infinite or NaN, it throws the   *)
(* convergence error.                                                      *)
(***************************************************************************)
SolverDone == impliedVol.pc \in {"returned", "threw"}

SolverSafe ==
  /\ impliedVol.iteration <= 100
  /\ impliedVol.evaluations <= 100
  /\ impliedVol.pc = "returned"
       => /\ impliedVol.converged
          /\ impliedVol.price = "finite"
          /\ impliedVol.volatility = "finite"
  /\ impliedVol.pc = "threw"
       => /\ ~impliedVol.converged
          /\ impliedVol.evaluations = 100
          /\ impliedVol.error =
               "Implied volatility calculation did not converge"
  /\ (impliedVol.pc = "loop" /\ impliedVol.volatility # "finite")
       => ~impliedVol.converged

\* C19: at most 100 evaluations, a return only on convergence, the
\* convergence error otherwise, and the call always ends.
C19_Termination == []SolverSafe /\ <>SolverDone

\* The iterate became NaN and the call threw after 100 iterations.
C19_Witness ==
  /\ impliedVol.pc = "threw"
  /\ impliedVol.volatility = "NaN"
  /\ impliedVol.iteration = 100

(***************************************************************************)
(* C20.  Configuration validation: an engine is not constructed with a     *)
(* premium or strike percentage outside [0, 1) or with daysToExpiration    *)
(* that is not a positive integer, so no price point is processed under    *)
(* such a configuration.                                                   *)
(***************************************************************************)
\* C20 as written: whenever a price point has been processed, the
\* configuration is inside the documented domain.
C20_AsWritten ==
  nTicks > 0 =>
    /\ InUnitInterval(config.putOptionPremiumPercent)
    /\ InUnitInterval(config.strikePercentage)
    /\ config.daysToExpiration >= 1

(***************************************************************************)
(* C21.  Tick ordering: within one call the settlement pass runs before    *)
(* the issuance pass, so a settlement record of a call precedes a SELL_PUT *)
(* record of the same call; when a contract expires unassigned and         *)
(* usdBalance > 0, a SELL_PUT with the same timestamp follows the          *)
(* PUT_EXPIRED record directly.                                            *)
(***************************************************************************)
\* C21: among the records of one call no SELL_PUT precedes a settlement,
\* and a PUT_EXPIRED that leaves cash is directly followed by a SELL_PUT of
\* the same timestamp.
C21_TickOrdering ==
  [][/\ \A i, j \in NewPositions :
          (i < j /\ trades'[j].action \in Settlements)
            => trades'[i].action \in Settlements
     /\ \A i \in NewPositions :
          (trades'[i].action = "PUT_EXPIRED"
             /\ greaterThan(trades'[i].usdBalance, Zero))
            => /\ i + 1 \in NewPositions
               /\ trades'[i + 1].action = "SELL_PUT"
               /\ trades'[i + 1].timestamp = trades'[i].timestamp]_vars

\* The second call let the first contract expire and sold the next one.
C21_Witness ==
  /\ Len(trades) = 3
  /\ trades[1].action = "SELL_PUT"
  /\ trades[2].action = "PUT_EXPIRED"
  /\ trades[3].action = "SELL_PUT"
  /\ trades[1].timestamp < trades[2].timestamp
  /\ trades[3].timestamp = trades[2].timestamp
  /\ lastTick.t = trades[3].timestamp

(***************************************************************************)
(* C22.  Issuance effect: a put sold on (t, p) has strike                  *)
(* p * (1 - strikePercentage), premium strike * putOptionPremiumPercent    *)
(* and expiresAt t + daysToExpiration; usdBalance grows by exactly the     *)
(* premium, btcBalance is unchanged, and exactly one SELL_PUT record with  *)
(* that strike, premium and the balances after the credit is appended.     *)
(***************************************************************************)
\* The balances when the issuance pass of the step starts: those of the
\* settlement record of the step, if any, else those before the step.
UsdBeforeIssuance(i) ==
  IF i = Len(trades) + 1 THEN usdBalance ELSE trades'[i - 1].usdBalance

BtcBeforeIssuance(i) ==
  IF i = Len(trades) + 1 THEN btcBalance ELSE trades'[i - 1].btcBalance

\* C22: the contract, the credit and the record of a sale.
C22_IssuanceEffect ==
  [][\A i \in NewPositions :
       trades'[i].action = "SELL_PUT" =>
         LET option == contracts'[Len(contracts')]
             strike == times(lastTick'.p,
                             minus(One, config.strikePercentage))
             premium == times(strike, config.putOptionPremiumPercent)
         IN /\ i = Len(trades')
            /\ \A j \in NewPositions : trades'[j].action = "SELL_PUT" => j = i
            /\ Len(contracts') = Len(contracts) + 1
            /\ Equal(option.strikePrice, strike)
            /\ Equal(option.premium, premium)
            /\ option.expiresAt = lastTick'.t + config.daysToExpiration
            /\ option.createdAt = lastTick'.t
            /\ Equal(usdBalance', plus(UsdBeforeIssuance(i), premium))
            /\ Equal(btcBalance', BtcBeforeIssuance(i))
            /\ trades'[i].timestamp = lastTick'.t
            /\ Equal(trades'[i].btcPrice, lastTick'.p)
            /\ Equal(trades'[i].strikePrice, strike)
            /\ Equal(trades'[i].premium, premium)
            /\ Equal(trades'[i].usdBalance, usdBalance')
            /\ Equal(trades'[i].btcBalance, btcBalance')]_vars

\* A put was sold at 90 for a positive premium by an engine holding BTC.
C22_Witness ==
  /\ Len(trades) >= 1
  /\ trades[Len(trades)].action = "SELL_PUT"
  /\ trades[Len(trades)].timestamp = lastTick.t
  /\ Equal(trades[Len(trades)].btcPrice, Decimal(90, 1))
  /\ greaterThan(trades[Len(trades)].premium, Zero)
  /\ greaterThan(btcBalance, Zero)
  /\ Len(activeOptions) = 1

(***************************************************************************)
(* C25.  Assignment is terminal: once a PUT_ASSIGNED record is in the      *)
(* ledger, usdBalance stays 0 and no record is appended any more, so       *)
(* assignedPuts is at most 1 and PUT_ASSIGNED can only be the last record. *)
(***************************************************************************)
\* C25: a PUT_ASSIGNED record is the last one, with no cash and no open
\* contract left, and there is at most one assignment.
C25_AssignmentTerminal ==
  /\ assignedPuts <= 1
  /\ \A i \in 1 .. Len(trades) :
       trades[i].action = "PUT_ASSIGNED"
         => /\ i = Len(trades)
            /\ Equal(usdBalance, Zero)
            /\ activeOptions = <<>>
            /\ assignedPuts = 1

\* Two calls were made after the one that assigned the put.
C25_Witness ==
  /\ Len(trades) = 2
  /\ trades[1].action = "SELL_PUT"
  /\ trades[2].action = "PUT_ASSIGNED"
  /\ trades[2].timestamp < lastTick.t
  /\ nTicks = 4

(***************************************************************************)
(* C26.  Eventual settlement: a contract is settled by the first later     *)
(* call whose timestamp is strictly greater than its expiresAt, at that    *)
(* call's price; until such a call comes the contract stays active and     *)
(* the ledger ends with its SELL_PUT record.                               *)
(***************************************************************************)
\* While a contract is active no call later than its expiry has been made
\* and the ledger ends with the record of its sale.
StillOpen ==
  \A id \in ActiveContracts :
    /\ lastTick.t <= contracts[id].expiresAt
    /\ Len(trades) >= 1
    /\ trades[Len(trades)].action = "SELL_PUT"
    /\ trades[Len(trades)].timestamp = contracts[id].createdAt
    /\ Equal(trades[Len(trades)].strikePrice, contracts[id].strikePrice)

\* A call later than the expiry settles the contract at the call's price;
\* any other call leaves it as it is.
SettledAtFirstLaterTick ==
  \A id \in ActiveContracts :
    IF lastTick'.t > contracts[id].expiresAt
    THEN /\ ~contracts'[id].isActive
         /\ \E i \in NewPositions :
              /\ trades'[i].action \in Settlements
              /\ trades'[i].timestamp = lastTick'.t
              /\ Equal(trades'[i].btcPrice, lastTick'.p)
              /\ Equal(trades'[i].strikePrice, contracts[id].strikePrice)
              /\ (trades'[i].action = "PUT_ASSIGNED")
                   = lessThan(lastTick'.p, contracts[id].strikePrice)
    ELSE /\ contracts'[id] = contracts[id]
         /\ trades' = trades

\* C26: settlement at the first call later than the expiry, at its price;
\* an open contract until then.
C26_EventualSettlement == []StillOpen /\ [][SettledAtFirstLaterTick]_vars

\* A contract outlived a call not later than its expiry, which appended
\* nothing, and was settled unassigned by the third call, more than a day
\* after the expiry, at that call's price of 100.
C26_Witness ==
  /\ nTicks = 3
  /\ Len(trades) = 3
  /\ trades[1].action = "SELL_PUT"
  /\ trades[2].action = "PUT_EXPIRED"
  /\ Equal(trades[2].btcPrice, Decimal(100, 1))
  /\ trades[2].timestamp > contracts[1].expiresAt + 1
  /\ trades[2].timestamp = lastTick.t

(***************************************************************************)
(* C27.  Ledger shape: the ledger alternates SELL_PUT and settlement       *)
(* records, starting with SELL_PUT; a settlement record carries the strike *)
(* of the SELL_PUT before it; the number of SELL_PUT records is the number *)
(* of settlement records plus the number of active contracts, 0 or 1.      *)
(***************************************************************************)
CountOf(actions) ==
  Cardinality({i \in 1 .. Len(trades) : trades[i].action \in actions})

\* C27: alternation, matching strikes, and the count of open contracts.
C27_LedgerShape ==
  /\ \A i \in 1 .. Len(trades) :
       IF i % 2 = 1
       THEN trades[i].action = "SELL_PUT"
       ELSE /\ trades[i].action \in Settlements
            /\ Equal(trades[i].strikePrice, trades[i - 1].strikePrice)
  /\ Cardinality(ActiveContracts) \in {0, 1}
  /\ Len(activeOptions) = Cardinality(ActiveContracts)
  /\ CountOf({"SELL_PUT"})
       = CountOf(Settlements) + Cardinality(ActiveContracts)

\* Two contracts with different strikes were sold and settled, the second
\* by assignment.
C27_Witness ==
  /\ Len(trades) = 4
  /\ trades[2].action = "PUT_EXPIRED"
  /\ trades[4].action = "PUT_ASSIGNED"
  /\ ~Equal(trades[1].strikePrice, trades[3].strikePrice)

C29_Snapshot ==
  IF Len(trades) > 0
  THEN /\ Equal(trades[Len(trades)].btcBalance, toNumber(btcBalance))
       /\ Equal(trades[Len(trades)].usdBalance, toNumber(usdBalance))
  ELSE /\ Equal(btcBalance, config.initialBTC)
       /\ Equal(usdBalance, config.initialUSD)

\* After an assignment that moved both balances, one more call was made.
C29_Witness ==
  /\ Len(trades) >= 2
  /\ trades[Len(trades)].action = "PUT_ASSIGNED"
  /\ trades[Len(trades)].timestamp < lastTick.t
  /\ greaterThan(btcBalance, config.initialBTC)
  /\ lessThan(usdBalance, config.initialUSD)

(***************************************************************************)
(* C23.  Early issuance (Black-Scholes variant): with usdBalance > 0 and   *)
(* no active contract the engine sells a put on a call even though fewer   *)
(* than 31 price points are retained, priced with the default volatility.  *)
(***************************************************************************)
\* C23 as written: after a call that leaves fewer than 31 points retained,
\* an engine with cash has an open contract.
C23_AsWritten ==
  (nTicks > 0 /\ Len(priceHistory) < 31 /\ greaterThan(usdBalance, Zero))
    => activeOptions # <<>>

(***************************************************************************)
(* C24.  Price-history window (Black-Scholes variant): the retained        *)
(* history has at most 100 points with strictly increasing timestamps; a   *)
(* point that is not strictly later than the last retained one is not      *)
(* inserted; when a 101st point is added the oldest one is evicted.        *)
(***************************************************************************)
HistoryBounded ==
  /\ Len(priceHistory) <= 100
  /\ \A k \in 1 .. Len(priceHistory) - 1 :
       priceHistory[k].t < priceHistory[k + 1].t

HistoryStep ==
  IF priceHistory = <<>>
       \/ lastTick'.t > priceHistory[Len(priceHistory)].t
  THEN IF Len(priceHistory) = 100
       THEN priceHistory' = Tail(priceHistory) \o <<lastTick'>>
       ELSE priceHistory' = priceHistory \o <<lastTick'>>
  ELSE priceHistory' = priceHistory

\* C24: bounded and strictly increasing; later points appended, others
\* dropped; the oldest point evicted at the bound.
C24_HistoryWindow == []HistoryBounded /\ [][HistoryStep]_vars

\* 103 calls, two of them dropped: the history is full and has lost its
\* first point.
C24_Witness ==
  /\ nTicks = 103
  /\ Len(priceHistory) = 100
  /\ priceHistory[1].t = 1
  /\ priceHistory[100].t = 100

====
